---- MODULE Spec2Model ----
(* A model of uiauto (src/main.go): a daemon that binds global hotkeys and, *)
(* on a key press, focuses or launches an application or centres the active *)
(* window.  Strings are sequences of one-character strings, so that the     *)
(* string functions of the code (Fields, Split, Contains, Atoi) and the     *)
(* pattern matching of pgrep are computed, not assumed; only what the       *)
(* matcher answers for a pattern with a back-reference is left to the       *)
(* environment.  An int is a sign and decimal digits, 64 bits wide.  A      *)
(* callback waits for each program it runs (pgrep, wmctrl, xrandr): a key   *)
(* press is a sequence of steps, one per program run, and the processes of  *)
(* the machine and the tray menu go on between them.  pgrep takes its       *)
(* locale from the environment the daemon was started in.  The binding      *)
(* mechanism (xgbutil) is not part of src/main.go: Connect and the dispatch *)
(* of a key press are as the specification of the program describes them.   *)
EXTENDS Integers, Sequences, FiniteSets, Bags, TLC

VARIABLES
    pc,         \* where main's goroutine is: load, stat, mkdir, write, decode
                \* (in loadOrCreateConfig), connect, binding, serving,
                \* returned, or crashed (a panic ended the process)
    tray,       \* systray.Run on the main thread: running, or quit
    confFile,   \* the configuration file on disk
    startErr,   \* the error that ended startup, or none
    config,     \* the decoded Config
    appsLeft,   \* keys of config.AppSelect the first loop has yet to bind
    wmLeft,     \* actions of config.WindowManage the second loop has yet to bind
    keybinds,   \* the binding mechanism's callback for each combo it holds
    regs,       \* by combo, the callbacks Connect accepted, in the order of
                \* the calls
    rejected,   \* the registrations Connect answered with an error: pairs
                \* of a combo and a callback
    procTable,  \* the processes of the machine besides init and the daemon,
                \* a bag: two processes may have the same command line
    locale,     \* the locale of the daemon's environment, which pgrep inherits
    trig,       \* the last key press: its combo, what its callbacks did,
                \* the callbacks yet to run and where the running one is
    prev        \* the combo of the key press before it if that press
                \* started a process, else <<>>

vars == <<pc, tray, confFile, startErr, config, appsLeft, wmLeft,
          keybinds, regs, rejected, procTable, locale, trig, prev>>

(* ---------------------------------------------------------------- bounds *)

\* The processes the daemon may have at a time, living or defunct: when it
\* has that many, cmd.Start() fails (fork: resource temporarily unavailable).
MaxChildren == 2

\* The processes with one command line that other programs may have at a
\* time.
MaxOthers == 1

\* Screen widths and heights 0..MaxDim are tried (besides 1920 x 1080).
MaxDim == 2

(* --------------------------------------------------------------- strings *)

sControlMod1 == <<"C", "o", "n", "t", "r", "o", "l", "-", "M", "o", "d", "1">>
sCmdMod4 == <<"C", "m", "d", "-", "M", "o", "d", "4">>
sCenter == <<"c", "e", "n", "t", "e", "r">>
sFirefox == <<"f", "i", "r", "e", "f", "o", "x">>
sFirefoxClass == <<"F", "i", "r", "e", "f", "o", "x">>
sKitty == <<"k", "i", "t", "t", "y">>
sDolphin == <<"d", "o", "l", "p", "h", "i", "n">>
sInit == <<"/", "s", "b", "i", "n", "/", "i", "n", "i", "t">>
sUiauto == <<"u", "i", "a", "u", "t", "o">>
sHeader == <<"S", "c", "r", "e", "e", "n", " ", "0">>
sDisconnectedLine == <<"H", "D", "M", "I", "-", "1", " ", "d", "i", "s", "c", "o", "n", "n", "e", "c", "t", "e", "d">>
sEDPConnected == <<"e", "D", "P", "-", "1", " ", "c", "o", "n", "n", "e", "c", "t", "e", "d">>
sNormal == <<"(", "n", "o", "r", "m", "a", "l", ")">>
sOffset == <<"+", "0", "+", "0">>

DigitValue ==
    "0" :> 0 @@ "1" :> 1 @@ "2" :> 2 @@ "3" :> 3 @@ "4" :> 4 @@
    "5" :> 5 @@ "6" :> 6 @@ "7" :> 7 @@ "8" :> 8 @@ "9" :> 9

DigitChar == <<"0", "1", "2", "3", "4", "5", "6", "7", "8", "9">>

\* unicode.IsSpace.  A character that cannot be written in a string here
\* goes by a name: VT is U+000B, NEL is U+0085, NBSP is U+00A0, and the
\* spaces beyond Latin-1 go by their code points.
IsSpace(c) ==
    c \in {" ", "\t", "\n", "VT", "\f", "\r", "NEL", "NBSP", "U+1680",
           "U+2000", "U+2001", "U+2002", "U+2003", "U+2004", "U+2005", "U+2006",
           "U+2007", "U+2008", "U+2009", "U+200A", "U+2028", "U+2029", "U+202F",
           "U+205F", "U+3000"}

\* strings.Contains(s, sub): the empty sub is contained in every s.
Contains(s, sub) ==
    \E i \in 1..(Len(s) - Len(sub) + 1) : SubSeq(s, i, i + Len(sub) - 1) = sub

\* The members of a set of integers, in increasing order.
Sorted(S) ==
    [k \in 1..Cardinality(S) |-> CHOOSE a \in S : Cardinality({b \in S : b < a}) = k - 1]

\* strings.Fields(s): the maximal runs of non-space characters, in order.
Fields(s) ==
    LET starts == {i \in 1..Len(s) : ~IsSpace(s[i]) /\ (i = 1 \/ IsSpace(s[i - 1]))}
        ends == {i \in 1..Len(s) : ~IsSpace(s[i]) /\ (i = Len(s) \/ IsSpace(s[i + 1]))}
        from == Sorted(starts)
        to == Sorted(ends)
    IN  [k \in 1..Cardinality(starts) |-> SubSeq(s, from[k], to[k])]

\* strings.Split(s, sep) for a one-character sep: the pieces between the
\* separators, Count(sep)+1 of them, some possibly empty.
Split(s, sep) ==
    LET seps == {i \in 1..Len(s) : s[i] = sep}
        cut == Sorted(seps \cup {0, Len(s) + 1})
    IN  [k \in 1..(Cardinality(seps) + 1) |-> SubSeq(s, cut[k] + 1, cut[k + 1] - 1)]

(* --------------------------------------------------------------- integers *)

\* An int of the program is a sign and a magnitude, the magnitude being its
\* decimal digits, the first one not 0: the values the program computes with
\* go up to 2^63, beyond the integers of the model checker.  Zero has no
\* digit and no sign.
Num(neg, mag) == [neg |-> neg /\ mag # <<>>, mag |-> mag]

\* The digits d without the zeros they begin with.
Strip(d) ==
    LET n == CHOOSE k \in 0..Len(d) :
                /\ \A i \in 1..k : d[i] = 0
                /\ k = Len(d) \/ d[k + 1] # 0
    IN  SubSeq(d, n + 1, Len(d))

\* Whether the magnitude a is below the magnitude b.
Below(a, b) ==
    \/ Len(a) < Len(b)
    \/ /\ Len(a) = Len(b)
       /\ \E i \in 1..Len(a) : a[i] < b[i] /\ \A j \in 1..(i - 1) : a[j] = b[j]

\* The digit of a that counts 10^k, 0 beyond its first digit.
Place(a, k) == IF k < Len(a) THEN a[Len(a) - k] ELSE 0

\* The sum of two magnitudes: carry[k] is what the places below k carry.
Sum(a, b) ==
    LET n == (IF Len(a) > Len(b) THEN Len(a) ELSE Len(b)) + 1
        carry[k \in 0..n] ==
            IF k = 0 THEN 0 ELSE (Place(a, k - 1) + Place(b, k - 1) + carry[k - 1]) \div 10
    IN  Strip([i \in 1..n |-> (Place(a, n - i) + Place(b, n - i) + carry[n - i]) % 10])

\* The difference of two magnitudes, b not above a: borrow[k] is what the
\* places below k borrow.
Difference(a, b) ==
    LET n == Len(a)
        borrow[k \in 0..n] ==
            IF k = 0 THEN 0
            ELSE IF Place(a, k - 1) - Place(b, k - 1) - borrow[k - 1] < 0 THEN 1 ELSE 0
    IN  Strip([i \in 1..n |->
                  (10 + Place(a, n - i) - Place(b, n - i) - borrow[n - i]) % 10])

\* The magnitude a times m, m from 0 to 4096.
Times(a, m) ==
    LET n == Len(a) + 4
        carry[k \in 0..n] ==
            IF k = 0 THEN 0 ELSE (Place(a, k - 1) * m + carry[k - 1]) \div 10
    IN  Strip([i \in 1..n |-> (Place(a, n - i) * m + carry[n - i]) % 10])

\* The magnitude a divided by d, d from 1 to 4096: quotient and remainder.
\* rem[i] is what the first i digits leave.
Over(a, d) ==
    LET rem[i \in 0..Len(a)] == IF i = 0 THEN 0 ELSE (rem[i - 1] * 10 + a[i]) % d
    IN  [quo |-> Strip([i \in 1..Len(a) |-> (rem[i - 1] * 10 + a[i]) \div d]),
         rem |-> rem[Len(a)]]

\* The int n of the model checker as an int of the program.
RECURSIVE Digits(_)
Digits(n) == IF n = 0 THEN <<>> ELSE Digits(n \div 10) \o <<n % 10>>

IntOf(n) == IF n < 0 THEN Num(TRUE, Digits(0 - n)) ELSE Num(FALSE, Digits(n))

\* The bounds of int, 64 bits wide: 2^63 - 1 and -2^63.
MaxInt == Num(FALSE, <<9, 2, 2, 3, 3, 7, 2, 0, 3, 6, 8, 5, 4, 7, 7, 5, 8, 0, 7>>)
MinInt == Num(TRUE, <<9, 2, 2, 3, 3, 7, 2, 0, 3, 6, 8, 5, 4, 7, 7, 5, 8, 0, 8>>)

\* The magnitude of the largest uint64, 2^64 - 1.
MaxUint64 == <<1, 8, 4, 4, 6, 7, 4, 4, 0, 7, 3, 7, 0, 9, 5, 5, 1, 6, 1, 5>>

\* The magnitude 2^53.
TwoTo53 == <<9, 0, 0, 7, 1, 9, 9, 2, 5, 4, 7, 4, 0, 9, 9, 2>>

\* a - b, in int: no difference the program computes leaves int.
Minus(a, b) ==
    IF a.neg # b.neg THEN Num(a.neg, Sum(a.mag, b.mag))
    ELSE IF Below(a.mag, b.mag) THEN Num(~a.neg, Difference(b.mag, a.mag))
    ELSE Num(a.neg, Difference(a.mag, b.mag))

\* a / d for d from 1 to 4096: Go's integer division truncates toward zero.
Quo(a, d) == Num(a.neg, Over(a.mag, d).quo)

\* strconv.Atoi with its error dropped (strToInt), int being 64 bits wide.
\* After an optional sign Atoi reads digits: once their value is beyond
\* uint64 it stops with a range error, whatever follows, and returns the
\* bound of int on the side of the sign; a character that is no digit, or
\* no digit at all, is a syntax error and gives 0; a value beyond int gives
\* the bound on its side.  run holds the digits the body begins with.
strToInt(s) ==
    LET signed == s # <<>> /\ s[1] \in {"+", "-"}
        neg == signed /\ s[1] = "-"
        body == IF signed THEN Tail(s) ELSE s
        n == CHOOSE k \in 0..Len(body) :
                /\ \A i \in 1..k : body[i] \in DOMAIN DigitValue
                /\ k = Len(body) \/ body[k + 1] \notin DOMAIN DigitValue
        run == Strip([i \in 1..n |-> DigitValue[body[i]]])
    IN  IF Below(MaxUint64, run) THEN (IF neg THEN MinInt ELSE MaxInt)
        ELSE IF n < Len(body) \/ body = <<>> THEN IntOf(0)
        ELSE IF neg THEN (IF Below(MinInt.mag, run) THEN MinInt ELSE Num(TRUE, run))
        ELSE IF Below(MaxInt.mag, run) THEN MaxInt
        ELSE Num(FALSE, run)

\* A magnitude as a float64 holds it: a float64 keeps 53 significant bits,
\* so the magnitude is counted in units of 2^u, u being the bits it has
\* beyond 53, and what is left is rounded, a tie going to the even side.
\* The magnitudes of the program are below 2^65.
Round53(m) ==
    LET u == CHOOSE k \in 0..12 :
                /\ Below(Over(m, 2^k).quo, TwoTo53)
                /\ k = 0 \/ ~Below(Over(m, 2^(k - 1)).quo, TwoTo53)
        rounded(d) ==
            IF 2 * d.rem > 2^u \/ (2 * d.rem = 2^u /\ Over(d.quo, 2).rem = 1)
            THEN Times(Sum(d.quo, <<1>>), 2^u)
            ELSE Times(d.quo, 2^u)
    IN  rounded(Over(m, 2^u))

\* int(float64(n) * 0.75): n as a float64, its product with 0.75, which is
\* three quarters of it rounded to a float64, and the conversion to int,
\* which truncates toward zero.
Scale75(n) == Num(n.neg, Over(Round53(Times(Round53(n.mag), 3)), 4).quo)

RECURSIVE Joined(_)
\* The arguments of a process as its command line shows them: one space
\* between two arguments.
Joined(parts) ==
    IF Len(parts) <= 1 THEN (IF parts = <<>> THEN <<>> ELSE parts[1])
    ELSE parts[1] \o <<" ">> \o Joined(Tail(parts))

\* A string with the character NUL (named, as it cannot be written) cannot
\* be an argument of a program: exec fails.
HasNul(s) == \E i \in 1..Len(s) : s[i] = "NUL"

(* --------------------------------------------------------- configuration *)

AppConfig(command, processName, windowClass) ==
    [Command |-> command, ProcessName |-> processName, WindowClass |-> windowClass]

\* The configuration the constant defaultConfig decodes to.
DefaultConfig ==
    [AppSelectPrefix |-> sControlMod1,
     WindowManagePrefix |-> sCmdMod4,
     AppSelect |-> (<<"b">> :> AppConfig(sFirefox, sFirefox, sFirefoxClass)
                 @@ <<"t">> :> AppConfig(sKitty, sKitty, sKitty)
                 @@ <<"f">> :> AppConfig(sDolphin, sDolphin, sDolphin)),
     WindowManage |-> (sCenter :> <<"S", "u", "p", "e", "r", "-", "M", "o", "d", "1", "-", "M">>)]

\* What defaultConfig decodes to when cut off after the line of "b".
HeadConfig ==
    [AppSelectPrefix |-> sControlMod1,
     WindowManagePrefix |-> sCmdMod4,
     AppSelect |-> (<<"b">> :> AppConfig(sFirefox, sFirefox, sFirefoxClass)),
     WindowManage |-> <<>>]

\* A user's configuration file: one prefix for both classes, a command with
\* an argument, an entry without process_name, an entry whose command is
\* blank, a window-manage combo equal to an app-select combo, and an action
\* name other than "center".
CustomConfig ==
    [AppSelectPrefix |-> <<"C">>,
     WindowManagePrefix |-> <<"C">>,
     AppSelect |-> (<<"t">> :>
                      AppConfig(<<"k", "i", "t", "t", "y", " ", "-", "-", "h", "o", "l", "d">>,
                                sKitty, sKitty)
                 @@ <<"x">> :>
                      AppConfig(<<"x", "t", "e", "r", "m">>, <<>>,
                                <<"X", "T", "e", "r", "m">>)
                 @@ <<"w">> :> AppConfig(<<" ", "\f">>, <<"n", "o", "p">>, <<>>)),
     WindowManage |-> (sCenter :> <<"t">> @@ <<"m", "a", "x", "i", "m", "i", "z", "e">> :> <<"m">>)]

\* Another user's configuration file: an entry whose command ends with a
\* letter beyond ASCII and whose process_name asks for a letter there, and
\* an entry whose process_name holds a back-reference.
AccentConfig ==
    [AppSelectPrefix |-> <<"C">>,
     WindowManagePrefix |-> <<"C">>,
     AppSelect |-> (<<"e">> :>
                      AppConfig(<<"c", "a", "f", "U+00E9">>,
                                <<"c", "a", "f", "[", "[", ":", "a", "l", "p", "h", "a", ":", "]", "]">>,
                                <<"c", "a", "f">>)
                 @@ <<"r">> :>
                      AppConfig(sKitty, <<"k", "i", "(", "t", ")", "\\", "1", "y">>, sKitty)),
     WindowManage |-> <<>>]

\* What Config is before anything is decoded into it, and what an empty
\* document decodes to.
EmptyConfig ==
    [AppSelectPrefix |-> <<>>, WindowManagePrefix |-> <<>>,
     AppSelect |-> <<>>, WindowManage |-> <<>>]

\* The configuration file on disk: absent, or one of these documents.
\* "head" is defaultConfig cut off after a line, "malformed" any text that
\* is not TOML, defaultConfig cut off inside a line for one.
Documents == {"default", "custom", "accent", "malformed", "empty", "head"}

\* What os.WriteFile may leave on disk when it fails: nothing when the file
\* could not be created; else the file is there, empty, cut off, or whole
\* (the error came at close).
WriteLeftovers == {"absent", "empty", "head", "malformed", "default"}

\* toml.DecodeFile: the decoded configuration and whether decoding failed;
\* readOk tells whether the file could be read.
DecodeFile(doc, readOk) ==
    CASE ~readOk         -> [config |-> EmptyConfig, err |-> TRUE]
      [] doc = "default" -> [config |-> DefaultConfig, err |-> FALSE]
      [] doc = "custom"  -> [config |-> CustomConfig, err |-> FALSE]
      [] doc = "accent"  -> [config |-> AccentConfig, err |-> FALSE]
      [] doc = "head"    -> [config |-> HeadConfig, err |-> FALSE]
      [] doc = "empty"   -> [config |-> EmptyConfig, err |-> FALSE]
      [] OTHER           -> [config |-> EmptyConfig, err |-> TRUE]

(* ------------------------------------------------- regular expressions *)

\* The printable ASCII characters, from code 32 to code 126.  A character
\* that cannot be written in a string here goes by a name: GRAVE is code 96.
Ascii ==
    <<" ", "!", "\"", "#", "$", "%", "&", "'", "(", ")", "*", "+", ",", "-", ".", "/",
      "0", "1", "2", "3", "4", "5", "6", "7", "8", "9", ":", ";", "<", "=", ">", "?",
      "@", "A", "B", "C", "D", "E", "F", "G", "H", "I", "J", "K", "L", "M", "N", "O",
      "P", "Q", "R", "S", "T", "U", "V", "W", "X", "Y", "Z", "[", "\\", "]", "^", "_",
      "GRAVE", "a", "b", "c", "d", "e", "f", "g", "h", "i", "j", "k", "l", "m", "n", "o",
      "p", "q", "r", "s", "t", "u", "v", "w", "x", "y", "z", "{", "|", "}", "~">>

\* The bytes beyond ASCII, by name, from x80 (128) to xFF (255).  A program
\* in the C locale reads a string byte by byte.
HighBytes ==
    <<"x80", "x81", "x82", "x83", "x84", "x85", "x86", "x87", "x88", "x89", "x8A", "x8B",
      "x8C", "x8D", "x8E", "x8F", "x90", "x91", "x92", "x93", "x94", "x95", "x96", "x97",
      "x98", "x99", "x9A", "x9B", "x9C", "x9D", "x9E", "x9F", "xA0", "xA1", "xA2", "xA3",
      "xA4", "xA5", "xA6", "xA7", "xA8", "xA9", "xAA", "xAB", "xAC", "xAD", "xAE", "xAF",
      "xB0", "xB1", "xB2", "xB3", "xB4", "xB5", "xB6", "xB7", "xB8", "xB9", "xBA", "xBB",
      "xBC", "xBD", "xBE", "xBF", "xC0", "xC1", "xC2", "xC3", "xC4", "xC5", "xC6", "xC7",
      "xC8", "xC9", "xCA", "xCB", "xCC", "xCD", "xCE", "xCF", "xD0", "xD1", "xD2", "xD3",
      "xD4", "xD5", "xD6", "xD7", "xD8", "xD9", "xDA", "xDB", "xDC", "xDD", "xDE", "xDF",
      "xE0", "xE1", "xE2", "xE3", "xE4", "xE5", "xE6", "xE7", "xE8", "xE9", "xEA", "xEB",
      "xEC", "xED", "xEE", "xEF", "xF0", "xF1", "xF2", "xF3", "xF4", "xF5", "xF6", "xF7",
      "xF8", "xF9", "xFA", "xFB", "xFC", "xFD", "xFE", "xFF">>

\* The code of a character (its code point) and of a byte: the characters
\* and bytes of this model.
Code ==
    [c \in {Ascii[i] : i \in 1..Len(Ascii)} |->
        31 + (CHOOSE i \in 1..Len(Ascii) : Ascii[i] = c)]
    @@ [b \in {HighBytes[i] : i \in 1..Len(HighBytes)} |->
        127 + (CHOOSE i \in 1..Len(HighBytes) : HighBytes[i] = b)]
    @@ ("NUL" :> 0 @@ "\t" :> 9 @@ "\n" :> 10 @@ "VT" :> 11 @@ "\f" :> 12
        @@ "\r" :> 13 @@ "ESC" :> 27 @@ "DEL" :> 127 @@ "NEL" :> 133
        @@ "NBSP" :> 160 @@ "U+00E9" :> 233 @@ "U+1680" :> 5760
        @@ "U+2000" :> 8192 @@ "U+2001" :> 8193 @@ "U+2002" :> 8194
        @@ "U+2003" :> 8195 @@ "U+2004" :> 8196 @@ "U+2005" :> 8197
        @@ "U+2006" :> 8198 @@ "U+2007" :> 8199 @@ "U+2008" :> 8200
        @@ "U+2009" :> 8201 @@ "U+200A" :> 8202 @@ "U+2028" :> 8232
        @@ "U+2029" :> 8233 @@ "U+202F" :> 8239 @@ "U+205F" :> 8287
        @@ "U+3000" :> 12288)

\* The bytes of a character in UTF-8, which is how Go holds a string and
\* how exec passes it; a byte is itself.
Utf8(c) ==
    LET k == Code[c]
        byte(n) == HighBytes[n - 127]
    IN  IF k < 128 \/ \E i \in 1..Len(HighBytes) : HighBytes[i] = c THEN <<c>>
        ELSE IF k < 2048 THEN <<byte(192 + (k \div 64)), byte(128 + (k % 64))>>
        ELSE IF k < 65536
        THEN <<byte(224 + (k \div 4096)), byte(128 + ((k \div 64) % 64)),
               byte(128 + (k % 64))>>
        ELSE <<byte(240 + (k \div 262144)), byte(128 + ((k \div 4096) % 64)),
               byte(128 + ((k \div 64) % 64)), byte(128 + (k % 64))>>

RECURSIVE Units(_, _)
\* What regcomp and regexec read a string as: its bytes in the C locale,
\* its characters in a UTF-8 locale.
Units(s, loc) ==
    IF loc # "C" \/ s = <<>> THEN s ELSE Utf8(s[1]) \o Units(Tail(s), loc)

\* The character classes of a bracket expression, by code.
ClassNames ==
    {"alpha", "digit", "alnum", "upper", "lower", "space", "blank", "punct",
     "print", "graph", "cntrl", "xdigit"}

\* The name of a class as the characters of a pattern spell it.
ClassText(name) ==
    CASE name = "alpha" -> <<"a", "l", "p", "h", "a">>
      [] name = "digit" -> <<"d", "i", "g", "i", "t">>
      [] name = "alnum" -> <<"a", "l", "n", "u", "m">>
      [] name = "upper" -> <<"u", "p", "p", "e", "r">>
      [] name = "lower" -> <<"l", "o", "w", "e", "r">>
      [] name = "space" -> <<"s", "p", "a", "c", "e">>
      [] name = "blank" -> <<"b", "l", "a", "n", "k">>
      [] name = "punct" -> <<"p", "u", "n", "c", "t">>
      [] name = "print" -> <<"p", "r", "i", "n", "t">>
      [] name = "graph" -> <<"g", "r", "a", "p", "h">>
      [] name = "cntrl" -> <<"c", "n", "t", "r", "l">>
      [] OTHER -> <<"x", "d", "i", "g", "i", "t">>

\* Whether c is of a class in a locale.  An ASCII character is of the same
\* classes in every locale.  In the C locale there is nothing else but
\* bytes, which are of no class; in a UTF-8 locale a character beyond ASCII
\* has the classes of glibc's table, given here for the characters of Code.
InClass(name, c, loc) ==
    LET k == Code[c]
        upper == k \in 65..90
        lower == k \in 97..122
        digit == k \in 48..57
        blank == {"U+1680", "U+2000", "U+2001", "U+2002", "U+2003", "U+2004", "U+2005",
                  "U+2006", "U+2008", "U+2009", "U+200A", "U+205F", "U+3000"}
        cntrl == {"NEL", "U+2028", "U+2029"}
        alpha == {"U+00E9"}
        punct == {"NBSP", "U+2007", "U+202F"}
    IN  IF k < 128
        THEN CASE name = "alpha" -> upper \/ lower
               [] name = "digit" -> digit
               [] name = "alnum" -> upper \/ lower \/ digit
               [] name = "upper" -> upper
               [] name = "lower" -> lower
               [] name = "space" -> k = 32 \/ k \in 9..13
               [] name = "blank" -> k = 32 \/ k = 9
               [] name = "punct" ->
                    k \in 33..47 \/ k \in 58..64 \/ k \in 91..96 \/ k \in 123..126
               [] name = "print" -> k \in 32..126
               [] name = "graph" -> k \in 33..126
               [] name = "cntrl" -> k \in 0..31 \/ k = 127
               [] name = "xdigit" -> digit \/ k \in 65..70 \/ k \in 97..102
               [] OTHER -> FALSE
        ELSE IF loc = "C" \/ Utf8(c) = <<c>> THEN FALSE
        ELSE CASE name \in {"alpha", "alnum", "lower"} -> c \in alpha
               [] name = "space" -> c \in blank \cup {"U+2028", "U+2029"}
               [] name = "blank" -> c \in blank
               [] name = "punct" -> c \in punct
               [] name = "print" -> c \in blank \cup punct \cup alpha
               [] name = "graph" -> c \in punct \cup alpha
               [] name = "cntrl" -> c \in cntrl
               [] OTHER -> FALSE

IsWordChar(c, loc) == InClass("alnum", c, loc) \/ c = "_"

\* The nodes of a parsed expression.
Eps == [t |-> "eps"]
Chr(c) == [t |-> "chr", c |-> c]
AnyChar == [t |-> "any"]
Anchor(k) == [t |-> "anchor", k |-> k]
CharSet(neg, chars, ranges, classes) ==
    [t |-> "set", neg |-> neg, chars |-> chars, ranges |-> ranges, classes |-> classes]
Cat(a, b) == [t |-> "cat", a |-> a, b |-> b]
Alt(a, b) == [t |-> "alt", a |-> a, b |-> b]
Rep(a, lo, hi) == [t |-> "rep", a |-> a, lo |-> lo, hi |-> hi]
Grp(a, n) == [t |-> "grp", a |-> a, n |-> n]
Ref(n) == [t |-> "ref", n |-> n]

\* The largest repetition count regcomp accepts (RE_DUP_MAX).
DupMax == 32767

\* What parsing an expression returns: the node, the next position, the
\* number of groups opened and the groups closed so far, or an error.
Parsed(node, i, g, done) == [err |-> FALSE, node |-> node, i |-> i, g |-> g, done |-> done]
ParseError == [err |-> TRUE, node |-> Eps, i |-> 0, g |-> 0, done |-> {}]

At(p, i, c) == i <= Len(p) /\ p[i] = c

\* The first position from i on where the two characters d and "]" stand,
\* or 0.
ElemEnd(p, i, d) ==
    LET ends == {j \in i..(Len(p) - 1) : p[j] = d /\ p[j + 1] = "]"}
    IN  IF ends = {} THEN 0 ELSE CHOOSE e \in ends : \A f \in ends : e <= f

\* The element [:name:], [.c.] or [=c=] that starts at i and ends at j.  The
\* name of a class is one of ClassNames, the c of the other two one byte.
NamedElem(d, name, j) ==
    IF j = 0 THEN [err |-> TRUE]
    ELSE IF d = ":"
    THEN IF \E n \in ClassNames : ClassText(n) = name
         THEN [err |-> FALSE, kind |-> "class", c |-> "",
               name |-> CHOOSE n \in ClassNames : ClassText(n) = name, i |-> j + 2]
         ELSE [err |-> TRUE]
    ELSE IF Len(name) = 1 /\ Len(Utf8(name[1])) = 1
    THEN [err |-> FALSE, kind |-> IF d = "=" THEN "equiv" ELSE "char",
          c |-> name[1], name |-> "", i |-> j + 2]
    ELSE [err |-> TRUE]

\* One element of a bracket expression at position i: a character, a
\* collating symbol [.c.], an equivalence class [=c=] or a class [:name:].
\* A "-" is an element where hyphen says so (the first item of the
\* expression, the end of a range) and before the closing "]".
BracketElem(p, i, hyphen) ==
    IF i > Len(p) THEN [err |-> TRUE]
    ELSE IF p[i] = "[" /\ i + 1 <= Len(p) /\ p[i + 1] \in {":", ".", "="}
    THEN NamedElem(p[i + 1],
                   SubSeq(p, i + 2, ElemEnd(p, i + 2, p[i + 1]) - 1),
                   ElemEnd(p, i + 2, p[i + 1]))
    ELSE IF p[i] = "-" /\ ~hyphen /\ ~At(p, i + 1, "]") THEN [err |-> TRUE]
    ELSE [err |-> FALSE, kind |-> "char", c |-> p[i], name |-> "", i |-> i + 1]

\* The set with the range from e to f added.  A class or an equivalence
\* class cannot end a range, nor can a character of more than one byte, and
\* the ends are in the order of their codes.
WithRange(set, e, f) ==
    IF f.err \/ f.kind \in {"class", "equiv"} THEN ParseError
    ELSE IF Len(Utf8(e.c)) > 1 \/ Len(Utf8(f.c)) > 1 THEN ParseError
    ELSE IF Code[e.c] > Code[f.c] THEN ParseError
    ELSE Parsed([set EXCEPT !.ranges = @ \cup {<<Code[e.c], Code[f.c]>>}], f.i, 0, {})

\* The set with the item that starts with the element e added.  A "-"
\* after a class or an equivalence class does not make a range: it starts
\* the next item.
WithItem(p, set, e) ==
    IF e.err THEN ParseError
    ELSE IF e.i > Len(p) THEN ParseError
    ELSE IF /\ e.kind = "char"
            /\ p[e.i] = "-" /\ e.i + 1 <= Len(p) /\ p[e.i + 1] # "]"
    THEN WithRange(set, e, BracketElem(p, e.i + 1, TRUE))
    ELSE IF e.kind = "class"
    THEN Parsed([set EXCEPT !.classes = @ \cup {e.name}], e.i, 0, {})
    ELSE Parsed([set EXCEPT !.chars = @ \cup {e.c}], e.i, 0, {})

RECURSIVE BracketItems(_, _, _)
\* The items of a bracket expression after the ones in b, up to its "]";
\* first tells whether the item is the first one, where a "]" and a "-" are
\* ordinary characters.
BracketItems(p, b, first) ==
    IF b.err \/ b.i > Len(p) THEN ParseError
    ELSE IF p[b.i] = "]" /\ ~first THEN [b EXCEPT !.i = @ + 1]
    ELSE BracketItems(p, WithItem(p, b.node, BracketElem(p, b.i, first)), FALSE)

\* A bracket expression whose "[" is at position i.
ParseBracket(p, i) ==
    IF At(p, i + 1, "^")
    THEN BracketItems(p, Parsed(CharSet(TRUE, {}, {}, {}), i + 2, 0, {}), TRUE)
    ELSE BracketItems(p, Parsed(CharSet(FALSE, {}, {}, {}), i + 1, 0, {}), TRUE)

\* Whether the character c stands at position i, as it is or after a
\* backslash.  Inside an interval regcomp reads tokens: a backslash and the
\* character after it are that character ("\0" is the digit 0, "\," the
\* comma), except where the two are an operator, as "\1" to "\9" are.
AtEscaped(p, i, c) == At(p, i, "\\") /\ At(p, i + 1, c)

\* The number num with the digit d added, kept at most DupMax + 1.
WithDigit(num, d) ==
    IF (IF num = -1 THEN 0 ELSE 10 * num) + d > DupMax THEN DupMax + 1
    ELSE (IF num = -1 THEN 0 ELSE 10 * num) + d

\* The digits from position i on, as a number: -1 when there is none.
RECURSIVE FetchNumber(_, _, _)
FetchNumber(p, i, num) ==
    IF i <= Len(p) /\ p[i] \in {"0", "1", "2", "3", "4", "5", "6", "7", "8", "9"}
    THEN FetchNumber(p, i + 1, WithDigit(num, Code[p[i]] - 48))
    ELSE IF AtEscaped(p, i, "0") THEN FetchNumber(p, i + 2, WithDigit(num, 0))
    ELSE [num |-> num, i |-> i]

\* The interval {m,n} or {m,} or {,n}, a being m and b being n.
IntervalTo(p, lo, b) ==
    IF ~At(p, b.i, "}") THEN [err |-> TRUE]
    ELSE IF b.num # -1 /\ lo > b.num THEN [err |-> TRUE]
    ELSE IF (IF b.num = -1 THEN lo ELSE b.num) > DupMax THEN [err |-> TRUE]
    ELSE [err |-> FALSE, lo |-> lo, hi |-> b.num, i |-> b.i + 1]

\* The interval that starts with the number a.
IntervalFrom(p, a) ==
    IF At(p, a.i, "}")
    THEN IF a.num = -1 \/ a.num > DupMax THEN [err |-> TRUE]
         ELSE [err |-> FALSE, lo |-> a.num, hi |-> a.num, i |-> a.i + 1]
    ELSE IF At(p, a.i, ",")
    THEN IntervalTo(p, IF a.num = -1 THEN 0 ELSE a.num, FetchNumber(p, a.i + 1, -1))
    ELSE IF AtEscaped(p, a.i, ",")
    THEN IntervalTo(p, IF a.num = -1 THEN 0 ELSE a.num, FetchNumber(p, a.i + 2, -1))
    ELSE [err |-> TRUE]

\* The interval whose "{" is at position i: {m}, {m,}, {m,n}, {,n}, {,}.
ParseInterval(p, i) == IntervalFrom(p, FetchNumber(p, i + 1, -1))

\* The expression e repeated as the interval d says.
WithInterval(e, d) ==
    IF d.err THEN ParseError
    ELSE [e EXCEPT !.node = Rep(e.node, d.lo, d.hi), !.i = d.i]

\* The expression e with the repetition operator that follows it.
ParseDup(p, e) ==
    CASE p[e.i] = "*" -> [e EXCEPT !.node = Rep(e.node, 0, -1), !.i = @ + 1]
      [] p[e.i] = "+" -> [e EXCEPT !.node = Rep(e.node, 1, -1), !.i = @ + 1]
      [] p[e.i] = "?" -> [e EXCEPT !.node = Rep(e.node, 0, 1), !.i = @ + 1]
      [] OTHER -> WithInterval(e, ParseInterval(p, e.i))

RECURSIVE ParseDups(_, _)
\* The expression e with the repetition operators that follow it.
ParseDups(p, e) ==
    IF e.err \/ e.i > Len(p) \/ p[e.i] \notin {"*", "+", "?", "{"} THEN e
    ELSE ParseDups(p, ParseDup(p, e))

\* An atom, and whether repetition operators may follow it: they may not
\* follow an anchor.
Atom(node, i, g, done, dups) ==
    [err |-> FALSE, node |-> node, i |-> i, g |-> g, done |-> done, dups |-> dups]

\* A backslash at position i and the character after it.
ParseEscape(p, i, g, done) ==
    IF i + 1 > Len(p) THEN ParseError
    ELSE CASE p[i + 1] \in {"1", "2", "3", "4", "5", "6", "7", "8", "9"} ->
                IF (Code[p[i + 1]] - 48) \in done
                THEN Atom(Ref(Code[p[i + 1]] - 48), i + 2, g, done, TRUE)
                ELSE ParseError
           [] p[i + 1] = "w" -> Atom(CharSet(FALSE, {"_"}, {}, {"alnum"}), i + 2, g, done, TRUE)
           [] p[i + 1] = "W" -> Atom(CharSet(TRUE, {"_"}, {}, {"alnum"}), i + 2, g, done, TRUE)
           [] p[i + 1] = "s" -> Atom(CharSet(FALSE, {}, {}, {"space"}), i + 2, g, done, TRUE)
           [] p[i + 1] = "S" -> Atom(CharSet(TRUE, {}, {}, {"space"}), i + 2, g, done, TRUE)
           [] p[i + 1] \in {"b", "B", "<", ">", "GRAVE", "'"} ->
                Atom(Anchor(p[i + 1]), i + 2, g, done, FALSE)
           [] OTHER -> Atom(Chr(p[i + 1]), i + 2, g, done, TRUE)

\* The bracket expression b as an atom.
BracketAtom(b, g, done) ==
    IF b.err THEN ParseError ELSE Atom(b.node, b.i, g, done, TRUE)

\* The atom at position i that is not a group.  A repetition operator
\* where an atom is expected is an error.
ParseAtom(p, i, g, done) ==
    CASE p[i] = "[" -> BracketAtom(ParseBracket(p, i), g, done)
      [] p[i] = "." -> Atom(AnyChar, i + 1, g, done, TRUE)
      [] p[i] \in {"^", "$"} -> Atom(Anchor(p[i]), i + 1, g, done, FALSE)
      [] p[i] \in {"*", "+", "?", "{"} -> ParseError
      [] p[i] = "\\" -> ParseEscape(p, i, g, done)
      [] OTHER -> Atom(Chr(p[i]), i + 1, g, done, TRUE)

\* An expression: an atom and the repetition operators that follow it.
ParseExpression(p, a) == IF a.err \/ ~a.dups THEN a ELSE ParseDups(p, a)

\* A group that is open, or the whole pattern (n = 0): the branches that
\* are complete (alts, none or one node), the branch being read (cat), the
\* groups a back-reference may name in this branch (done), those it may
\* name at the start of each branch (done0), and those closed in the
\* branches that are complete (doneAll).
Frame(n, done) ==
    [n |-> n, alts |-> <<>>, cat |-> Eps, done |-> done, done0 |-> done, doneAll |-> {}]

\* The node of a group whose last branch is complete.
Closed(f) == IF f.alts = <<>> THEN f.cat ELSE Alt(f.alts[1], f.cat)

\* The parser: the next position, the number of groups opened, the groups
\* that are open, the innermost last, and whether it has failed or ended.
Parser(i, g, stack) == [err |-> FALSE, fin |-> FALSE, i |-> i, g |-> g, stack |-> stack]
ParseFailed == [err |-> TRUE, fin |-> TRUE, i |-> 0, g |-> 0, stack |-> <<Frame(0, {})>>]

\* "|": the branch is complete, and the next one may refer back to the
\* groups closed before the first branch began, and to its own.
NextBranch(st, f) ==
    [st EXCEPT !.i = @ + 1,
               !.stack[Len(st.stack)] =
                    [f EXCEPT !.alts = <<Closed(f)>>, !.cat = Eps,
                              !.done = f.done0, !.doneAll = @ \cup f.done]]

\* "(": a group opens.
OpenGroup(st, f) ==
    [st EXCEPT !.i = @ + 1, !.g = @ + 1,
               !.stack = Append(@, Frame(st.g + 1, f.done))]

\* The expression e is added to the branch being read.
AddExpression(st, e) ==
    IF e.err THEN ParseFailed
    ELSE [st EXCEPT !.i = e.i,
                    !.stack[Len(st.stack)].cat = Cat(@, e.node),
                    !.stack[Len(st.stack)].done = e.done]

\* ")": the innermost group f closes, and is an atom of the group around it.
CloseGroup(p, st, f) ==
    AddExpression([st EXCEPT !.stack = SubSeq(@, 1, Len(@) - 1)],
                  ParseDups(p, Parsed(Grp(Closed(f), f.n), st.i + 1, st.g,
                                      f.doneAll \cup f.done \cup {f.n})))

\* One step of the parser, f being the innermost open group.  At the end
\* of the pattern no group may be open; a ")" outside a group is an
\* ordinary character.
ParseStep(p, st, f) ==
    IF st.i > Len(p)
    THEN IF Len(st.stack) > 1 THEN ParseFailed ELSE [st EXCEPT !.fin = TRUE]
    ELSE CASE p[st.i] = "|" -> NextBranch(st, f)
           [] p[st.i] = "(" -> OpenGroup(st, f)
           [] p[st.i] = ")" /\ Len(st.stack) > 1 -> CloseGroup(p, st, f)
           [] OTHER -> AddExpression(st, ParseExpression(p, ParseAtom(p, st.i, st.g, f.done)))

RECURSIVE ParseRegExp(_, _)
\* A regular expression, from the state st on.
ParseRegExp(p, st) ==
    IF st.fin THEN st ELSE ParseRegExp(p, ParseStep(p, st, st.stack[Len(st.stack)]))

\* The expression the parser has read.
Compiled(st) ==
    IF st.err THEN ParseError
    ELSE Parsed(Closed(st.stack[1]), st.i, st.g, st.stack[1].done)

\* regcomp(pattern, REG_EXTENDED | REG_NOSUB) in a locale.
regcomp(p, loc) ==
    Compiled(ParseRegExp(Units(p, loc), Parser(1, 0, <<Frame(0, {})>>)))

InCharSet(n, c, loc) ==
    (\/ c \in n.chars
     \/ \E r \in n.ranges : r[1] <= Code[c] /\ Code[c] <= r[2]
     \/ \E k \in n.classes : InClass(k, c, loc))
    # n.neg

\* Whether an anchor holds at position i of s.
AnchorHolds(k, s, i, loc) ==
    LET before == i > 1 /\ IsWordChar(s[i - 1], loc)
        after == i <= Len(s) /\ IsWordChar(s[i], loc)
    IN  CASE k \in {"^", "GRAVE"} -> i = 1
          [] k \in {"$", "'"} -> i = Len(s) + 1
          [] k = "b" -> before # after
          [] k = "B" -> before = after
          [] k = "<" -> ~before /\ after
          [] k = ">" -> before /\ ~after
          [] OTHER -> FALSE

RECURSIVE Ends(_, _, _, _)
RECURSIVE RepEnds(_, _, _, _, _, _)

\* The positions in s, a sequence of units, where the matcher may be after
\* a node when it was at one of the positions S before it.  A back-reference
\* is not matched here: see regexec.
Ends(n, S, s, loc) ==
    IF S = {} THEN {}
    ELSE CASE n.t = "eps" -> S
           [] n.t = "chr" -> {x + 1 : x \in {y \in S : y <= Len(s) /\ s[y] = n.c}}
           [] n.t = "any" -> {x + 1 : x \in {y \in S : y <= Len(s)}}
           [] n.t = "set" ->
                {x + 1 : x \in {y \in S : y <= Len(s) /\ InCharSet(n, s[y], loc)}}
           [] n.t = "anchor" -> {x \in S : AnchorHolds(n.k, s, x, loc)}
           [] n.t = "cat" -> Ends(n.b, Ends(n.a, S, s, loc), s, loc)
           [] n.t = "alt" -> Ends(n.a, S, s, loc) \cup Ends(n.b, S, s, loc)
           [] n.t = "rep" -> RepEnds(n.a, S, s, n.lo, n.hi, loc)
           [] n.t = "grp" -> Ends(n.a, S, s, loc)
           [] OTHER -> {}

\* The positions after lo to hi repetitions of a (hi = -1: any number).
RepEnds(a, S, s, lo, hi, loc) ==
    IF S = {} THEN {}
    ELSE IF lo > 0
    THEN LET T == Ends(a, S, s, loc)
         IN  IF T = S THEN S
             ELSE RepEnds(a, T, s, lo - 1, IF hi = -1 THEN -1 ELSE hi - 1, loc)
    ELSE IF hi = 0 THEN S
    ELSE LET T == Ends(a, S, s, loc) \ S
         IN  S \cup RepEnds(a, T, s, 0, IF hi = -1 THEN -1 ELSE hi - 1, loc)

RECURSIVE Refers(_)
\* Whether an expression holds a back-reference.
Refers(n) ==
    CASE n.t = "ref" -> TRUE
      [] n.t \in {"cat", "alt"} -> Refers(n.a) \/ Refers(n.b)
      [] n.t \in {"rep", "grp"} -> Refers(n.a)
      [] OTHER -> FALSE

\* regexec in a locale: whether the compiled expression matches somewhere
\* in s.  What the matcher of the C library answers for an expression with
\* a back-reference is not worked out here: refs holds the texts it finds
\* such an expression to match.
regexec(r, s, refs, loc) ==
    IF Refers(r.node) THEN s \in refs
    ELSE Ends(r.node, 1..(Len(Units(s, loc)) + 1), Units(s, loc), loc) # {}

(* ---------------------------------------------------- pgrep's options *)

\* The options of pgrep (procps-ng 4): switches, -n and -o which select by
\* themselves, -h and -V which print a text and exit, options that take a
\* value, and among these the ones that select processes.
ShortFlags == {"a", "c", "f", "i", "l", "v", "w", "x", "A", "L"}
ShortPicks == {"n", "o"}
ShortTexts == {"h", "V"}
ShortPlain == {"d"}
ShortSelects == {"g", "G", "s", "t", "u", "U", "P", "F", "r", "O"}

LongOption(name, kind, letter) == [name |-> name, kind |-> kind, letter |-> letter]

LongOptions ==
    {LongOption(<<"s", "i", "g", "n", "a", "l">>, "plain", "signal"),
     LongOption(<<"i", "g", "n", "o", "r", "e", "-", "a", "n", "c", "e", "s", "t", "o", "r", "s">>, "flag", "A"),
     LongOption(<<"c", "o", "u", "n", "t">>, "flag", "c"),
     LongOption(<<"c", "g", "r", "o", "u", "p">>, "select", "cgroup"),
     LongOption(<<"d", "e", "l", "i", "m", "i", "t", "e", "r">>, "plain", "d"),
     LongOption(<<"l", "i", "s", "t", "-", "n", "a", "m", "e">>, "flag", "l"),
     LongOption(<<"l", "i", "s", "t", "-", "f", "u", "l", "l">>, "flag", "a"),
     LongOption(<<"p", "g", "r", "o", "u", "p">>, "select", "g"),
     LongOption(<<"g", "r", "o", "u", "p">>, "select", "G"),
     LongOption(<<"i", "g", "n", "o", "r", "e", "-", "c", "a", "s", "e">>, "flag", "i"),
     LongOption(<<"n", "e", "w", "e", "s", "t">>, "pick", "n"),
     LongOption(<<"o", "l", "d", "e", "s", "t">>, "pick", "o"),
     LongOption(<<"o", "l", "d", "e", "r">>, "select", "O"),
     LongOption(<<"p", "a", "r", "e", "n", "t">>, "select", "P"),
     LongOption(<<"s", "e", "s", "s", "i", "o", "n">>, "select", "s"),
     LongOption(<<"t", "e", "r", "m", "i", "n", "a", "l">>, "select", "t"),
     LongOption(<<"e", "u", "i", "d">>, "select", "u"),
     LongOption(<<"u", "i", "d">>, "select", "U"),
     LongOption(<<"i", "n", "v", "e", "r", "s", "e">>, "flag", "v"),
     LongOption(<<"l", "i", "g", "h", "t", "w", "e", "i", "g", "h", "t">>, "flag", "w"),
     LongOption(<<"e", "x", "a", "c", "t">>, "flag", "x"),
     LongOption(<<"f", "u", "l", "l">>, "flag", "f"),
     LongOption(<<"p", "i", "d", "f", "i", "l", "e">>, "select", "F"),
     LongOption(<<"l", "o", "g", "p", "i", "d", "f", "i", "l", "e">>, "flag", "L"),
     LongOption(<<"e", "c", "h", "o">>, "flag", "e"),
     LongOption(<<"n", "s">>, "select", "ns"),
     LongOption(<<"n", "s", "l", "i", "s", "t">>, "plain", "nslist"),
     LongOption(<<"q", "u", "e", "u", "e">>, "plain", "queue"),
     LongOption(<<"r", "u", "n", "s", "t", "a", "t", "e", "s">>, "select", "r"),
     LongOption(<<"h", "e", "l", "p">>, "text", "h"),
     LongOption(<<"v", "e", "r", "s", "i", "o", "n">>, "text", "V")}

\* What pgrep does once its options are read, seen being the options in
\* the order given: a usage error, a selection by an option's value
\* ("select"), or the selection of the newest or oldest process ("pick").
AfterOptions(seen) ==
    LET has(c) == \E i \in 1..Len(seen) : seen[i] = c
        exclusive == Cardinality({i \in 1..Len(seen) : seen[i] \in {"n", "o", "v"}})
    IN  IF exclusive > 1 THEN "usage"
        ELSE IF has("L") /\ ~has("F") THEN "usage"
        ELSE IF \E i \in 1..Len(seen) : seen[i] \in ShortSelects \cup {"cgroup", "ns"}
        THEN "select"
        ELSE IF has("n") \/ has("o") THEN "pick"
        ELSE "usage"

RECURSIVE ScanShort(_, _, _)
\* The letters of an argument "-abc" from position j on.
ScanShort(s, j, seen) ==
    IF j > Len(s) THEN AfterOptions(seen)
    ELSE CASE s[j] \in ShortTexts -> "text"
           [] s[j] \in ShortFlags \cup ShortPicks -> ScanShort(s, j + 1, Append(seen, s[j]))
           [] s[j] \in ShortPlain \cup ShortSelects ->
                IF j = Len(s) THEN "usage" ELSE AfterOptions(Append(seen, s[j]))
           [] OTHER -> "usage"

\* An argument "--name" or "--name=value": name may be any prefix of an
\* option's name that fits one option only.
ScanLong(s) ==
    LET body == SubSeq(s, 3, Len(s))
        eqs == {i \in 1..Len(body) : body[i] = "="}
        valued == eqs # {}
        name == IF valued
                THEN SubSeq(body, 1, (CHOOSE i \in eqs : \A j \in eqs : i <= j) - 1)
                ELSE body
        fits == {o \in LongOptions :
                    Len(name) <= Len(o.name) /\ SubSeq(o.name, 1, Len(name)) = name}
        exact == {o \in fits : o.name = name}
        found == IF exact # {} THEN exact ELSE fits
    IN  IF body = <<>> \/ Cardinality(found) # 1 THEN "usage"
        ELSE LET o == CHOOSE f \in found : TRUE
             IN  IF o.kind \in {"flag", "pick", "text"}
                 THEN IF valued THEN "usage"
                      ELSE IF o.kind = "text" THEN "text"
                      ELSE AfterOptions(<<o.letter>>)
                 ELSE IF ~valued THEN "usage"
                 ELSE AfterOptions(<<o.letter>>)

\* How pgrep -f reads the argument that follows: as the pattern, or as
\* options, with no pattern then.
ArgKind(s) ==
    IF Len(s) < 2 \/ s[1] # "-" THEN "pattern"
    ELSE IF s[2] = "-" THEN ScanLong(s)
    ELSE ScanShort(s, 2, <<>>)

(* ------------------------------------------------------ launch or focus *)

\* A process: the command line it was started with, and whether it is a
\* child of the daemon ("child"), a child of the daemon that has ended and
\* that nobody waits for ("defunct"), or any other process ("other").
Process(cmd, kind) == [cmd |-> cmd, kind |-> kind]

\* Command lines of the processes other programs may start.
Procs == {sKitty}

RECURSIVE Escaped(_, _)
\* A text as pgrep prepares it before matching: a control character is
\* replaced, by "." in the C locale and by "?" in a UTF-8 locale, and in the
\* C locale so is every byte beyond ASCII, by "?".
Escaped(s, loc) ==
    IF s = <<>> THEN <<>>
    ELSE (IF Code[s[1]] < 32 \/ Code[s[1]] = 127
          THEN <<IF loc = "C" THEN "." ELSE "?">>
          ELSE IF Code[s[1]] < 128 \/ loc # "C" THEN <<s[1]>>
          ELSE [i \in 1..Len(Utf8(s[1])) |-> "?"])
         \o Escaped(Tail(s), loc)

\* The kernel's name of a process as pgrep prepares it: the file name of
\* the executable cut at 15 bytes; the bytes of a character that is cut are
\* replaced by "?" each.
Comm(exe, loc) ==
    LET slashes == {i \in 1..Len(exe) : exe[i] = "/"}
        b == IF slashes = {} THEN exe
             ELSE SubSeq(exe, (CHOOSE i \in slashes : \A j \in slashes : j <= i) + 1,
                         Len(exe))
        size(n) == Len(Units(SubSeq(b, 1, n), "C"))
        fit == CHOOSE n \in 0..Len(b) : size(n) <= 15 /\ (n = Len(b) \/ size(n + 1) > 15)
    IN  Escaped(SubSeq(b, 1, fit), loc)
        \o [i \in 1..(IF fit < Len(b) THEN 15 - size(fit) ELSE 0) |-> "?"]

\* What pgrep -f reads for a process: its arguments with a space between
\* two of them and for every line feed, prepared; and for a process that has
\* ended and was not waited for (cmd.Start() is never followed by
\* cmd.Wait()), its name between brackets and "<defunct>".
Seen(e, loc) ==
    IF e.kind = "defunct"
    THEN <<"[">> \o Comm(Fields(e.cmd)[1], loc)
         \o <<"]", " ", "<", "d", "e", "f", "u", "n", "c", "t", ">">>
    ELSE Escaped([i \in 1..Len(e.cmd) |-> IF e.cmd[i] = "\n" THEN " " ELSE e.cmd[i]], loc)

\* The command lines pgrep reads in a process table; init and the daemon
\* itself run for as long as the daemon does.
CommandLines(table, loc) == {Seen(e, loc) : e \in BagToSet(table)} \cup {sInit, sUiauto}

\* pgrep -f processName, by the daemon: what it prints and the error exec
\* reports ("exec": pgrep could not be run; "exit1": nothing matched;
\* "exit2": pgrep rejected its arguments).  table holds the command lines of
\* the processes as pgrep reads them, its own left out; sel is the answer of
\* a selection by an option's value, which depends on the users, terminals
\* and sessions of the machine; refs holds the command lines the matcher
\* finds a pattern with a back-reference to match; loc is the locale pgrep
\* runs in.
pgrep(processName, table, execOk, sel, refs, loc) ==
    IF ~execOk \/ HasNul(processName) THEN [out |-> {}, err |-> "exec"]
    ELSE LET picked == IF table = {} THEN {} ELSE {CHOOSE p \in table : TRUE}
             printed(kind, r) ==
                 CASE kind = "pattern" ->
                        IF r.err THEN {} ELSE {p \in table : regexec(r, p, refs, loc)}
                   [] kind = "pick" -> picked
                   [] kind = "select" -> IF sel = "match" THEN picked ELSE {}
                   [] kind = "text" -> {<<"U", "s", "a", "g", "e", ":">>}
                   [] OTHER -> {}
             exit(kind, r, out) ==
                 [out |-> out,
                  err |-> IF kind = "usage" \/ (kind = "pattern" /\ r.err)
                             \/ (kind = "select" /\ sel = "error")
                          THEN "exit2"
                          ELSE IF out = {} THEN "exit1" ELSE "none"]
             run(kind, r) == exit(kind, r, printed(kind, r))
         IN  run(ArgKind(processName), regcomp(processName, loc))

\* The answers a selection by an option's value may get.
Selections(processName) ==
    IF ArgKind(processName) = "select" THEN {"match", "nomatch", "error"} ELSE {"nomatch"}

\* The answers the matcher may give for a pattern with a back-reference.
RefAnswers(processName, table, loc) ==
    LET answers(r) == IF ~r.err /\ Refers(r.node) THEN SUBSET table ELSE {{}}
    IN  answers(regcomp(processName, loc))

isAppRunning(processName, table, execOk, sel, refs, loc) ==
    LET running(r) == r.err = "none" /\ r.out # {}
    IN  running(pgrep(processName, table, execOk, sel, refs, loc))

\* focusApp: one wmctrl -x -a call; its error is printed only.
focusApp(windowClass, callOk) ==
    [panic |-> FALSE,
     calls |-> <<[op |-> "focus", class |-> windowClass,
                  ok |-> callOk /\ ~HasNul(windowClass)]>>]

\* startApp: exec.Command(parts[0], parts[1:]...).Start(), its error printed
\* only; parts[0] panics when the command has no field.
startApp(command, callOk) ==
    LET start(parts) ==
            IF Len(parts) = 0
            THEN [panic |-> TRUE, calls |-> <<>>]
            ELSE [panic |-> FALSE,
                  calls |-> <<[op |-> "launch", exe |-> parts[1], args |-> Tail(parts),
                               ok |-> callOk /\ ~HasNul(Joined(parts))]>>]
    IN  start(Fields(command))

\* openOrFocusApp from the answer of isAppRunning on.
openOrFocusApp(app, running, callOk) ==
    IF running
    THEN focusApp(app.WindowClass, callOk)
    ELSE startApp(app.Command, callOk)

\* What the process-table query told the callback: a match, no match, or
\* nothing, for pgrep did not run or rejected its arguments.
QueryOutcome(processName, table, execOk, sel, refs, loc) ==
    LET outcome(r) == IF r.err \in {"exec", "exit2"} THEN "fail"
                      ELSE IF r.out # {} THEN "match" ELSE "nomatch"
    IN  outcome(pgrep(processName, table, execOk, sel, refs, loc))

\* The children a callback's calls have started: when cmd.Start() returns
\* without error the child is there.
Started(calls) ==
    SetToBag({Process(Joined(<<calls[i].exe>> \o calls[i].args), "child") :
                 i \in {j \in 1..Len(calls) : calls[j].op = "launch" /\ calls[j].ok}})

\* The processes of a table that the daemon started, living or defunct.
Children(table) ==
    BagCardinality([e \in {d \in BagToSet(table) : d.kind # "other"} |-> table[e]])

(* ------------------------------------------------------------- centring *)

\* Lines 157-162: three quarters of the screen, and half of what is left on
\* each side.
centerRect(screenWidth, screenHeight) ==
    LET targetWidth == Scale75(screenWidth)
        targetHeight == Scale75(screenHeight)
    IN  [x |-> Quo(Minus(screenWidth, targetWidth), 2),
         y |-> Quo(Minus(screenHeight, targetHeight), 2),
         width |-> targetWidth, height |-> targetHeight]

\* The first line of the xrandr output that contains " connected", as a
\* sequence of at most one line.
FirstConnected(output) ==
    LET lines == Split(output, "\n")
        hits == {i \in 1..Len(lines) :
                    Contains(lines[i], <<" ", "c", "o", "n", "n", "e", "c", "t", "e", "d">>)}
    IN  IF hits = {} THEN <<>>
        ELSE <<lines[CHOOSE i \in hits : \A j \in hits : i <= j]>>

\* dimensions := strings.Split(resolution, "x"), then lines 145-146.
parseDimensions(dimensions) ==
    IF Len(dimensions) < 2
    THEN [panic |-> TRUE, w |-> strToInt(dimensions[1]), h |-> IntOf(0)]
    ELSE [panic |-> FALSE, w |-> strToInt(dimensions[1]), h |-> strToInt(dimensions[2])]

\* fields := strings.Fields(line), then lines 143-146.
parseFields(fields) ==
    IF Len(fields) < 3
    THEN [panic |-> TRUE, w |-> IntOf(0), h |-> IntOf(0)]
    ELSE parseDimensions(Split(Split(fields[3], "+")[1], "x"))

\* The body of the loop of lines 140-149, run on the first connected line if
\* there is one.
parseFound(found) ==
    IF found = <<>>
    THEN [panic |-> FALSE, w |-> IntOf(0), h |-> IntOf(0)]
    ELSE parseFields(Fields(found[1]))

\* The parsing loop of centerWindow: screenWidth and screenHeight, or the
\* panic of an index out of range (fields[2], dimensions[1]).
parseScreen(output) == parseFound(FirstConnected(output))

\* centerWindow up to line 154, s being what the loop left: whether it
\* panicked, the screen it found, and whether it goes on to move the window.
screenParsed(s) ==
    [panic |-> s.panic, w |-> s.w, h |-> s.h,
     move |-> ~s.panic /\ ~(s.w = IntOf(0) \/ s.h = IntOf(0))]

\* centerWindow up to line 154: xr is what exec.Command("xrandr").Output()
\* returned.
findScreen(xr) ==
    IF xr.err
    THEN [panic |-> FALSE, w |-> IntOf(0), h |-> IntOf(0), move |-> FALSE]
    ELSE screenParsed(parseScreen(xr.out))

\* centerWindow from line 156 on: one wmctrl -r :ACTIVE: -e call; its error
\* is printed only.
moveWindow(screenWidth, screenHeight, callOk) ==
    <<[op |-> "move", rect |-> centerRect(screenWidth, screenHeight), ok |-> callOk]>>

(* ------------------------------------------------------ xrandr's outputs *)

RECURSIVE IntToStr(_)
IntToStr(n) ==
    IF n < 10 THEN <<DigitChar[n + 1]>>
    ELSE IntToStr(n \div 10) \o <<DigitChar[(n % 10) + 1]>>

RECURSIVE Text(_)
\* Lines, each ended by a line feed.
Text(lines) ==
    IF lines = <<>> THEN <<>> ELSE lines[1] \o <<"\n">> \o Text(Tail(lines))

Mode(w, h) == IntToStr(w) \o <<"x">> \o IntToStr(h) \o sOffset

\* "eDP-1 connected <token> (normal)"
ConnectedLine(token) == sEDPConnected \o <<" ">> \o token \o <<" ">> \o sNormal

\* "eDP-1 connected primary <token> (normal)"
PrimaryLine(token) ==
    sEDPConnected \o <<" ", "p", "r", "i", "m", "a", "r", "y", " ">> \o token
        \o <<" ">> \o sNormal

Display(kind, w, h) == [kind |-> kind, w |-> w, h |-> h]

\* The display set-ups a key press may find: a connected output in mode w x h,
\* and set-ups in which xrandr prints something else, or fails.
Displays ==
    {Display("mode", w, h) : w \in 0..MaxDim, h \in 0..MaxDim}
    \cup {Display("mode", 1920, 1080)}
    \cup {Display(k, 0, 0) :
            k \in {"second", "none", "primary", "bare", "off", "letters",
                   "noheight", "nooffset", "negative", "wide", "beyond",
                   "empty", "fail"}}

\* What exec.Command("xrandr").Output() returns in a display set-up.
Xrandr(d) ==
    [err |-> d.kind = "fail",
     out |->
        CASE d.kind = "mode" -> Text(<<sHeader, ConnectedLine(Mode(d.w, d.h))>>)
          [] d.kind = "second" ->
                Text(<<sHeader, sDisconnectedLine, ConnectedLine(Mode(3, 2)),
                       <<"D", "P", "-", "2", " ", "c", "o", "n", "n", "e", "c", "t", "e", "d", " ">>
                           \o Mode(2, 2)>>)
          [] d.kind = "none" -> Text(<<sHeader, sDisconnectedLine>>)
          [] d.kind = "primary" -> Text(<<sHeader, PrimaryLine(Mode(1920, 1080))>>)
          [] d.kind = "bare" -> Text(<<sHeader, sEDPConnected>>)
          [] d.kind = "off" -> Text(<<sHeader, sEDPConnected \o <<" ">> \o sNormal>>)
          [] d.kind = "letters" -> Text(<<ConnectedLine(<<"a", "x", "b">>)>>)
          [] d.kind = "noheight" -> Text(<<ConnectedLine(<<"3", "x">>)>>)
          [] d.kind = "nooffset" -> Text(<<ConnectedLine(<<"3", "x", "2">>)>>)
          [] d.kind = "negative" -> Text(<<ConnectedLine(<<"-", "3", "x", "-", "2">>)>>)
          [] d.kind = "wide" ->
                Text(<<ConnectedLine(<<"3", "0", "0", "2", "3", "9", "9", "7", "5", "1", "5",
                                       "8", "0", "3", "3", "3", "x", "1", "0", "8", "0">>
                                     \o sOffset)>>)
          [] d.kind = "beyond" ->
                Text(<<ConnectedLine(<<"9", "9", "9", "9", "9", "9", "9", "9", "9", "9", "9",
                                       "9", "9", "9", "9", "9", "9", "9", "9", "9", "a", "x",
                                       "5">> \o sOffset)>>)
          [] OTHER -> <<>>]

NoDisplay == Display("fail", 0, 0)

\* findScreen in each display set-up, worked out once.
Screens == [d \in Displays |-> findScreen(Xrandr(d))]

(* ------------------------------------------------------- hotkey registry *)

\* The closure bindKey connects.
AppCallback(app) == [kind |-> "app", app |-> app, action |-> <<>>]

\* The closure bindWindowManagementKey connects.
WmCallback(action) == [kind |-> "wm", app |-> AppConfig(<<>>, <<>>, <<>>), action |-> action]

\* keybind.KeyPressFun(cb).Connect(X, X.RootWin(), keyCombo, true).  The
\* binding mechanism maps each combo string to exactly one action:
\* connecting a combo again overwrites the previous binding.  When it rejects
\* the combo it returns an error and binds nothing.
Connect(binds, keyCombo, cb, accepted) ==
    [err |-> ~accepted,
     binds |-> IF accepted
               THEN [c \in DOMAIN binds \cup {keyCombo} |->
                        IF c = keyCombo THEN cb ELSE binds[c]]
               ELSE binds]

\* The callbacks the binding mechanism runs on a press of keyCombo.
CallbacksFor(binds, keyCombo) == <<binds[keyCombo]>>

AppCombo(cfg, key) == cfg.AppSelectPrefix \o <<"-">> \o key

WmCombo(cfg, action) == cfg.WindowManagePrefix \o <<"-">> \o cfg.WindowManage[action]

\* What a running callback has learnt so far: the answer of the process
\* query (held tells whether a command line of the table contained the
\* process name when the query was made, whatever pgrep answered), or the
\* screen xrandr reported.
NoCur ==
    [query |-> "none", held |-> FALSE, running |-> FALSE,
     display |-> NoDisplay, w |-> IntOf(0), h |-> IntOf(0)]

\* What is recorded of one run of an app-select callback; foundAtCall tells
\* whether a command line of the table contained the process name when the
\* callback focused or launched.
AppRun(cb, cur, foundAtCall, r) ==
    [cb |-> cb, query |-> cur.query, held |-> cur.held, foundAtCall |-> foundAtCall,
     display |-> NoDisplay, panic |-> r.panic, calls |-> r.calls,
     w |-> IntOf(0), h |-> IntOf(0)]

\* What is recorded of one run of a window-manage callback.
WmRun(cb, display, panic, calls, w, h) ==
    [cb |-> cb, query |-> "none", held |-> FALSE, foundAtCall |-> FALSE,
     display |-> display, panic |-> panic, calls |-> calls, w |-> w, h |-> h]

\* Where a callback starts: at its first program, or, for a window-manage
\* action other than "center", at its return.
StepOf(cbs) ==
    IF cbs = <<>> THEN "idle"
    ELSE IF cbs[1].kind = "app" THEN "query"
    ELSE IF cbs[1].action = sCenter THEN "xrandr"
    ELSE "other"

(* -------------------------------------------------------------- the state *)

NoTrig == [combo |-> <<>>, runs |-> <<>>, todo |-> <<>>, at |-> "idle", cur |-> NoCur]

\* Whether the callbacks of a key press started a process.
Launched(runs) ==
    \E i \in 1..Len(runs) :
        \E j \in 1..Len(runs[i].calls) :
            runs[i].calls[j].op = "launch" /\ runs[i].calls[j].ok

Init ==
    /\ pc = "load"
    /\ tray = "running"
    /\ confFile \in {"absent"} \cup Documents
    /\ startErr = "none"
    /\ config = EmptyConfig
    /\ appsLeft = {}
    /\ wmLeft = {}
    /\ keybinds = <<>>
    /\ regs = <<>>
    /\ rejected = {}
    /\ procTable = EmptyBag
    /\ locale \in {"C", "C.UTF-8"}
    /\ trig = NoTrig
    /\ prev = <<>>

Alive == tray = "running" /\ pc # "crashed"

\* main, lines 51-54: a failed load ends the goroutine.
AfterLoad(err, next) == IF err # "none" THEN "returned" ELSE next

\* loadOrCreateConfig, lines 81-84: os.UserHomeDir().
UserHomeDir(homeOk) ==
    /\ Alive /\ pc = "load"
    /\ startErr' = IF homeOk THEN "none" ELSE "home"
    /\ pc' = AfterLoad(startErr', "stat")
    /\ UNCHANGED <<tray, confFile, config, appsLeft, wmLeft, keybinds, regs, rejected,
                   procTable, locale, trig, prev>>

\* Line 89: os.Stat(configPath) and os.IsNotExist(err).  The file is reported
\* not to exist only when it does not; any other answer, an error such as a
\* directory that cannot be searched included, skips the creation.
Stat(notExist) ==
    /\ Alive /\ pc = "stat"
    /\ notExist => confFile = "absent"
    /\ pc' = IF notExist THEN "mkdir" ELSE "decode"
    /\ UNCHANGED <<tray, confFile, startErr, config, appsLeft, wmLeft, keybinds, regs,
                   rejected, procTable, locale, trig, prev>>

\* Lines 90-93: os.MkdirAll(configDir, 0755).
MkdirAll(mkdirOk) ==
    /\ Alive /\ pc = "mkdir"
    /\ startErr' = IF mkdirOk THEN "none" ELSE "mkdir"
    /\ pc' = AfterLoad(startErr', "write")
    /\ UNCHANGED <<tray, confFile, config, appsLeft, wmLeft, keybinds, regs, rejected,
                   procTable, locale, trig, prev>>

\* Lines 95-99: os.WriteFile(configPath, defaultConfig, 0644); left is what
\* it leaves on disk when it fails.
WriteFile(writeOk, left) ==
    /\ Alive /\ pc = "write"
    /\ confFile' = IF writeOk THEN "default" ELSE left
    /\ startErr' = IF writeOk THEN "none" ELSE "write"
    /\ pc' = AfterLoad(startErr', "decode")
    /\ UNCHANGED <<tray, config, appsLeft, wmLeft, keybinds, regs, rejected,
                   procTable, locale, trig, prev>>

\* Lines 102-104 and main, lines 50-54: toml.DecodeFile(configPath, &config).
LoadConfig(readOk) ==
    /\ Alive /\ pc = "decode"
    /\ config' = DecodeFile(confFile, readOk).config
    /\ startErr' = IF DecodeFile(confFile, readOk).err THEN "decode" ELSE "none"
    /\ pc' = AfterLoad(startErr', "connect")
    /\ UNCHANGED <<tray, confFile, appsLeft, wmLeft, keybinds, regs, rejected,
                   procTable, locale, trig, prev>>

\* main, lines 56-62; the two range loops then start over the maps.
XConnect(ok) ==
    /\ Alive /\ pc = "connect"
    /\ IF ok
       THEN /\ pc' = "binding"
            /\ appsLeft' = DOMAIN config.AppSelect
            /\ wmLeft' = DOMAIN config.WindowManage
            /\ UNCHANGED startErr
       ELSE /\ pc' = "returned"
            /\ startErr' = "xconn"
            /\ UNCHANGED <<appsLeft, wmLeft>>
    /\ UNCHANGED <<tray, confFile, config, keybinds, regs, rejected, procTable, locale,
                   trig, prev>>

\* What bind records of a registration: the callback among those accepted
\* for the combo, or the registration among those rejected.
Recorded(r, keyCombo, cb) ==
    /\ keybinds' = r.binds
    /\ regs' = IF r.err THEN regs
               ELSE [c \in DOMAIN regs \cup {keyCombo} |->
                        IF c # keyCombo THEN regs[c]
                        ELSE IF c \in DOMAIN regs THEN Append(regs[c], cb) ELSE <<cb>>]
    /\ rejected' = IF r.err THEN rejected \cup {<<keyCombo, cb>>} ELSE rejected

\* bind ending startup when Connect answers an error.
bindFatal(keyCombo, cb, accepted) ==
    /\ Recorded(Connect(keybinds, keyCombo, cb, accepted), keyCombo, cb)
    /\ pc' = IF accepted THEN pc ELSE "returned"

\* bind leaving a combo that is bound already as it is.
bindOnce(keyCombo, cb, accepted) ==
    /\ Recorded([Connect(keybinds, keyCombo, cb, accepted) EXCEPT
                    !.binds = IF keyCombo \in DOMAIN keybinds THEN keybinds ELSE @],
                keyCombo, cb)
    /\ pc' = pc

\* bindKey and bindWindowManagementKey: connect, and print the error if any.
bind(keyCombo, cb, accepted) ==
    /\ Recorded(Connect(keybinds, keyCombo, cb, accepted), keyCombo, cb)
    /\ pc' = pc

\* One iteration of the loop of lines 64-66 (a map is ranged over in any
\* order); accepted is the answer of the binding mechanism.
BindKey(key, accepted) ==
    /\ Alive /\ pc = "binding" /\ key \in appsLeft
    /\ bind(AppCombo(config, key), AppCallback(config.AppSelect[key]), accepted)
    /\ appsLeft' = appsLeft \ {key}
    /\ UNCHANGED <<tray, confFile, startErr, config, wmLeft, procTable, locale, trig, prev>>

\* One iteration of the loop of lines 70-72, which follows the first loop.
BindWindowManagementKey(action, accepted) ==
    /\ Alive /\ pc = "binding" /\ appsLeft = {} /\ action \in wmLeft
    /\ bind(WmCombo(config, action), WmCallback(action), accepted)
    /\ wmLeft' = wmLeft \ {action}
    /\ UNCHANGED <<tray, confFile, startErr, config, appsLeft, procTable, locale, trig, prev>>

\* xevent.Main(X), line 74.
StartEventLoop ==
    /\ Alive /\ pc = "binding" /\ appsLeft = {} /\ wmLeft = {}
    /\ pc' = "serving"
    /\ UNCHANGED <<tray, confFile, startErr, config, appsLeft, wmLeft, keybinds, regs,
                   rejected, procTable, locale, trig, prev>>

\* The event loop delivers one press of a grabbed combo: its callbacks are
\* run one after the other, and the next event waits for the last of them.
KeyPress(keyCombo) ==
    /\ Alive /\ pc = "serving" /\ trig.at = "idle"
    /\ keyCombo \in DOMAIN keybinds
    /\ trig' = [combo |-> keyCombo, runs |-> <<>>,
                todo |-> CallbacksFor(keybinds, keyCombo),
                at |-> StepOf(CallbacksFor(keybinds, keyCombo)), cur |-> NoCur]
    /\ prev' = IF Launched(trig.runs) THEN trig.combo ELSE <<>>
    /\ UNCHANGED <<pc, tray, confFile, startErr, config, appsLeft, wmLeft, keybinds, regs,
                   rejected, procTable, locale>>

\* The running callback returns or panics: a panic ends the process, and
\* otherwise the next callback of the press starts.
Returns(run) ==
    /\ trig' = [trig EXCEPT !.runs = Append(@, run),
                            !.todo = Tail(@),
                            !.at = IF run.panic THEN "idle" ELSE StepOf(Tail(trig.todo)),
                            !.cur = NoCur]
    /\ pc' = IF run.panic THEN "crashed" ELSE pc

\* isAppRunning, lines 180-182: pgrep reads the process table and the
\* callback waits for it.
QueryProcess(execOk, sel, refs) ==
    /\ Alive /\ pc = "serving" /\ trig.at = "query"
    /\ LET answers(processName, table) ==
               [NoCur EXCEPT
                   !.query = QueryOutcome(processName, table, execOk, sel, refs, locale),
                   !.held = \E p \in table : Contains(p, processName),
                   !.running = isAppRunning(processName, table, execOk, sel, refs, locale)]
       IN  trig' = [trig EXCEPT
                       !.at = "act",
                       !.cur = answers(trig.todo[1].app.ProcessName,
                                       CommandLines(procTable, locale))]
    /\ UNCHANGED <<pc, tray, confFile, startErr, config, appsLeft, wmLeft, keybinds, regs,
                   rejected, procTable, locale, prev>>

\* openOrFocusApp, lines 172-176: wmctrl focuses and the callback waits for
\* it, or the command is started and not waited for.  The start fails when
\* the daemon has MaxChildren processes already.
FocusOrLaunch(callOk) ==
    /\ Alive /\ pc = "serving" /\ trig.at = "act"
    /\ (callOk /\ ~trig.cur.running) => Children(procTable) < MaxChildren
    /\ LET cb == trig.todo[1]
           r == openOrFocusApp(cb.app, trig.cur.running, callOk)
           foundAtCall == \E p \in CommandLines(procTable, locale) :
                              Contains(p, cb.app.ProcessName)
       IN  /\ Returns(AppRun(cb, trig.cur, foundAtCall, r))
           /\ procTable' = procTable (+) Started(r.calls)
    /\ UNCHANGED <<tray, confFile, startErr, config, appsLeft, wmLeft, keybinds, regs,
                   rejected, locale, prev>>

\* centerWindow, lines 131-154: xrandr runs and the callback waits for it,
\* then reads the screen from its output.
QueryScreen(display) ==
    /\ Alive /\ pc = "serving" /\ trig.at = "xrandr"
    /\ IF Screens[display].move
       THEN /\ trig' = [trig EXCEPT
                           !.at = "move",
                           !.cur = [NoCur EXCEPT !.display = display,
                                                 !.w = Screens[display].w,
                                                 !.h = Screens[display].h]]
            /\ pc' = pc
       ELSE Returns(WmRun(trig.todo[1], display, Screens[display].panic, <<>>,
                          Screens[display].w, Screens[display].h))
    /\ UNCHANGED <<tray, confFile, startErr, config, appsLeft, wmLeft, keybinds, regs,
                   rejected, procTable, locale, prev>>

\* centerWindow, lines 156-168: wmctrl moves the window and the callback
\* waits for it.
MoveWindow(callOk) ==
    /\ Alive /\ pc = "serving" /\ trig.at = "move"
    /\ Returns(WmRun(trig.todo[1], trig.cur.display, FALSE,
                     moveWindow(trig.cur.w, trig.cur.h, callOk),
                     trig.cur.w, trig.cur.h))
    /\ UNCHANGED <<tray, confFile, startErr, config, appsLeft, wmLeft, keybinds, regs,
                   rejected, procTable, locale, prev>>

\* The callback of a window-manage action other than "center" does nothing.
OtherAction ==
    /\ Alive /\ pc = "serving" /\ trig.at = "other"
    /\ Returns(WmRun(trig.todo[1], NoDisplay, FALSE, <<>>, IntOf(0), IntOf(0)))
    /\ UNCHANGED <<tray, confFile, startErr, config, appsLeft, wmLeft, keybinds, regs,
                   rejected, procTable, locale, prev>>

\* The environment: another program starts a process.
ProcStart(p) ==
    /\ Alive /\ pc = "serving"
    /\ CopiesIn(Process(p, "other"), procTable) < MaxOthers
    /\ procTable' = procTable (+) SetToBag({Process(p, "other")})
    /\ UNCHANGED <<pc, tray, confFile, startErr, config, appsLeft, wmLeft,
                   keybinds, regs, rejected, locale, trig, prev>>

\* The environment: a process that is not the daemon's ends, and its parent
\* waits for it.
ProcExit(e) ==
    /\ Alive /\ pc = "serving" /\ BagIn(e, procTable) /\ e.kind = "other"
    /\ procTable' = procTable (-) SetToBag({e})
    /\ UNCHANGED <<pc, tray, confFile, startErr, config, appsLeft, wmLeft,
                   keybinds, regs, rejected, locale, trig, prev>>

\* The environment: one process the daemon started ends.  The daemon never
\* waits for it, so it stays in the process table, defunct.
ChildExit(e) ==
    /\ Alive /\ pc = "serving" /\ BagIn(e, procTable) /\ e.kind = "child"
    /\ procTable' = (procTable (-) SetToBag({e})) (+) SetToBag({Process(e.cmd, "defunct")})
    /\ UNCHANGED <<pc, tray, confFile, startErr, config, appsLeft, wmLeft,
                   keybinds, regs, rejected, locale, trig, prev>>

\* onReady's goroutine: the Quit menu item ends systray.Run, and main returns.
Quit ==
    /\ Alive
    /\ tray' = "quit"
    /\ UNCHANGED <<pc, confFile, startErr, config, appsLeft, wmLeft, keybinds, regs,
                   rejected, procTable, locale, trig, prev>>

Next ==
    \/ \E homeOk \in BOOLEAN : UserHomeDir(homeOk)
    \/ \E notExist \in BOOLEAN : Stat(notExist)
    \/ \E mkdirOk \in BOOLEAN : MkdirAll(mkdirOk)
    \/ \E writeOk \in BOOLEAN :
          \E left \in (IF writeOk THEN {"default"} ELSE WriteLeftovers) :
             WriteFile(writeOk, left)
    \/ \E readOk \in BOOLEAN : LoadConfig(readOk)
    \/ \E ok \in BOOLEAN : XConnect(ok)
    \/ \E key \in appsLeft, accepted \in BOOLEAN : BindKey(key, accepted)
    \/ \E action \in wmLeft, accepted \in BOOLEAN :
          BindWindowManagementKey(action, accepted)
    \/ StartEventLoop
    \/ \E keyCombo \in DOMAIN keybinds : KeyPress(keyCombo)
    \/ \E execOk \in BOOLEAN :
          \E sel \in (IF trig.at = "query"
                      THEN Selections(trig.todo[1].app.ProcessName) ELSE {"nomatch"}) :
             \E refs \in (IF trig.at = "query"
                          THEN RefAnswers(trig.todo[1].app.ProcessName,
                                          CommandLines(procTable, locale), locale)
                          ELSE {{}}) :
                QueryProcess(execOk, sel, refs)
    \/ \E callOk \in BOOLEAN : FocusOrLaunch(callOk)
    \/ \E display \in Displays : QueryScreen(display)
    \/ \E callOk \in BOOLEAN : MoveWindow(callOk)
    \/ OtherAction
    \/ \E p \in Procs : ProcStart(p)
    \/ \E e \in BagToSet(procTable) : ProcExit(e)
    \/ \E e \in BagToSet(procTable) : ChildExit(e)
    \/ Quit

Spec == Init /\ [][Next]_vars

(* ------------------------------------------------------------ the claims *)

LoadErrs == {"home", "mkdir", "write", "decode"}

\* The runs of the last key press that were app-select callbacks.
AppRunsOfTrig == {trig.runs[i] : i \in {j \in 1..Len(trig.runs) : trig.runs[j].cb.kind = "app"}}

\* The runs of the last key press that were "center" callbacks.
CenterRunsOfTrig ==
    {trig.runs[i] : i \in {j \in 1..Len(trig.runs) : trig.runs[j].cb.action = sCenter}}

\* The external calls of a run, by name.
Ops(r) == [i \in 1..Len(r.calls) |-> r.calls[i].op]

\* The callbacks the configuration asks to connect to a combo.
Registered(keyCombo) ==
    {AppCallback(config.AppSelect[k]) :
        k \in {key \in DOMAIN config.AppSelect : AppCombo(config, key) = keyCombo}}
    \cup {WmCallback(a) :
        a \in {act \in DOMAIN config.WindowManage : WmCombo(config, act) = keyCombo}}

\* C1: on every app-select key press the callback makes exactly one call,
\* chosen by the process query: on a match, focus with the window class and
\* no launch; on no match, launch with the first field of the command as the
\* executable and the other fields as its arguments, and no focus.
C1_FocusOrLaunchByQuery ==
    \A r \in AppRunsOfTrig :
        /\ Len(r.calls) = 1
        /\ r.query = "match" =>
              /\ r.calls[1].op = "focus"
              /\ r.calls[1].class = r.cb.app.WindowClass
        /\ r.query = "nomatch" =>
              /\ r.calls[1].op = "launch"
              /\ Len(Fields(r.cb.app.Command)) >= 1
              /\ r.calls[1].exe = Fields(r.cb.app.Command)[1]
              /\ r.calls[1].args = Tail(Fields(r.cb.app.Command))

\* C2: a launch occurs only in a state where the process table has no match
\* for the binding's process name, that is no command line that contains it;
\* and a press that follows a press of the same combo that started a
\* process, the table holding a match when it is queried, makes one focus
\* call and no launch.
C2_LaunchOnlyWithoutMatch ==
    \A r \in AppRunsOfTrig :
        /\ "launch" \in {Ops(r)[i] : i \in 1..Len(r.calls)} => ~r.foundAtCall
        /\ (prev = trig.combo /\ r.held) => Ops(r) = <<"focus">>

\* Whether an int is above zero.
Positive(a) == ~a.neg /\ a.mag # <<>>

\* floor(a / 2), a being an int.
FloorHalf(a) ==
    IF a.neg /\ Over(a.mag, 2).rem = 1
    THEN Num(TRUE, Sum(Over(a.mag, 2).quo, <<1>>))
    ELSE Num(a.neg, Over(a.mag, 2).quo)

\* floor(0.75 * a), a being a positive int.
FloorThreeQuarters(a) == Num(FALSE, Over(Times(a.mag, 3), 4).quo)

\* C3: for a screen of W x H, both positive, the rectangle passed to the
\* window move has width floor(0.75 W), height floor(0.75 H), x = floor((W -
\* width)/2), y = floor((H - height)/2) and lies inside the screen; for
\* 1920 x 1080 it is 1440 x 810 at (240, 135).
C3_CenteredRect ==
    \A r \in CenterRunsOfTrig :
        (Positive(r.w) /\ Positive(r.h)) =>
            /\ Ops(r) = <<"move">>
            /\ LET rect == r.calls[1].rect
               IN  /\ rect.width = FloorThreeQuarters(r.w)
                   /\ rect.height = FloorThreeQuarters(r.h)
                   /\ rect.x = FloorHalf(Minus(r.w, rect.width))
                   /\ rect.y = FloorHalf(Minus(r.h, rect.height))
                   /\ ~rect.x.neg /\ ~rect.y.neg
                   /\ ~Minus(Minus(r.w, rect.x), rect.width).neg
                   /\ ~Minus(Minus(r.h, rect.y), rect.height).neg
                   /\ (r.w = IntOf(1920) /\ r.h = IntOf(1080)) =>
                         rect = [x |-> IntOf(240), y |-> IntOf(135),
                                 width |-> IntOf(1440), height |-> IntOf(810)]

C5_NoTriggerEndsProcess == pc # "crashed"

\* C6: after a failed configuration load the process has exited
\* and no key binding is installed.
C6_LoadFailureExits ==
    startErr \in LoadErrs => (tray = "quit" /\ DOMAIN keybinds = {})

\* C6's case: the configuration document was malformed and the process is
\* still there.
C6_MalformedAndStillRunning ==
    confFile = "malformed" /\ startErr = "decode" /\ tray = "running"

\* C7: a rejected registration does not end startup.  The goroutine returns
\* before the event loop only on a load or connection error.  Once the loop
\* is started every configured registration was either rejected or accepted,
\* whatever the set of those rejected; the combo of an accepted one is bound;
\* no combo is bound to the callback of a rejected registration, and a combo
\* whose registrations were all rejected is not bound at all.
C7_RejectedIsSkipped ==
    /\ pc = "returned" => startErr # "none"
    /\ \A c \in DOMAIN keybinds : <<c, keybinds[c]>> \notin rejected
    /\ pc \in {"serving", "crashed"} =>
          /\ \A key \in DOMAIN config.AppSelect :
                IF <<AppCombo(config, key), AppCallback(config.AppSelect[key])>> \in rejected
                THEN (\A cb \in Registered(AppCombo(config, key)) :
                         <<AppCombo(config, key), cb>> \in rejected)
                     => AppCombo(config, key) \notin DOMAIN keybinds
                ELSE AppCombo(config, key) \in DOMAIN keybinds
          /\ \A action \in DOMAIN config.WindowManage :
                IF <<WmCombo(config, action), WmCallback(action)>> \in rejected
                THEN (\A cb \in Registered(WmCombo(config, action)) :
                         <<WmCombo(config, action), cb>> \in rejected)
                     => WmCombo(config, action) \notin DOMAIN keybinds
                ELSE WmCombo(config, action) \in DOMAIN keybinds

\* C7's case: the event loop runs, two registrations were rejected, one of
\* an app-select binding and one of a window-manage action, and another
\* combo is bound.
C7_ServingAfterRejections ==
    /\ pc = "serving"
    /\ \E a, b \in rejected : a[2].kind = "app" /\ b[2].kind = "wm"
    /\ DOMAIN keybinds # {}

IsDigits(s) == Len(s) > 0 /\ \A i \in 1..Len(s) : s[i] \in DOMAIN DigitValue

\* The reference of C8: whether a field is a <width>x<height> token, with or
\* without an offset.
IsModeToken(f) ==
    LET d == Split(Split(f, "+")[1], "x")
    IN  Len(d) = 2 /\ IsDigits(d[1]) /\ IsDigits(d[2])

ModeOf(f) ==
    LET d == Split(Split(f, "+")[1], "x")
        value(t) == Num(FALSE, Strip([i \in 1..Len(t) |-> DigitValue[t[i]]]))
    IN  <<value(d[1]), value(d[2])>>

\* The reference of C8: the mode token of the first connected line.
ReferenceDims(output) ==
    LET found == FirstConnected(output)
    IN  IF found = <<>> THEN <<IntOf(0), IntOf(0)>>
        ELSE LET fs == Fields(found[1])
                 hits == {k \in 1..Len(fs) : IsModeToken(fs[k])}
             IN  IF hits = {} THEN <<IntOf(0), IntOf(0)>>
                 ELSE ModeOf(fs[CHOOSE k \in hits : \A j \in hits : k <= j])

\* C8: whatever xrandr prints, if the mode token of the first connected line
\* gives a positive width and height the window is moved for exactly those
\* dimensions, and otherwise no window move is made.
C8_ScreenDiscoveryAsReference ==
    \A r \in CenterRunsOfTrig :
        ~Xrandr(r.display).err =>
            LET ref == ReferenceDims(Xrandr(r.display).out)
            IN  IF Positive(ref[1]) /\ Positive(ref[2])
                THEN Ops(r) = <<"move">> /\ r.w = ref[1] /\ r.h = ref[2]
                ELSE r.calls = <<>>

\* C9: a binding without a process name never focuses.
C9_EmptyProcessNameNeverFocuses ==
    \A r \in AppRunsOfTrig :
        r.cb.app.ProcessName = <<>> => "focus" \notin {Ops(r)[i] : i \in 1..Len(r.calls)}

\* C9's case: a binding without a process name was pressed and focused.
C9_EmptyProcessNameFocused ==
    \E r \in AppRunsOfTrig :
        r.cb.app.ProcessName = <<>> /\ r.query = "match" /\ Ops(r) = <<"focus">>

\* C10: when the process query fails the press makes no call, neither focus
\* nor launch; and no callback makes more than one call, whether the call
\* fails or not.
C10_FailedQueryHasNoEffect ==
    \A r \in AppRunsOfTrig :
        /\ r.query = "fail" => r.calls = <<>>
        /\ Len(r.calls) <= 1

====
